---- MODULE Spec2Model ----
(***************************************************************************)
(* Dynamic Stop-Loss (DSL) engine of wolf-strategy: the per-position script *)
(* dsl-v4.py and the batch runner dsl-combined.py, as a state machine over  *)
(* one persisted position record.                                           *)
(*                                                                          *)
(* Numbers.  Prices are integers in units of 10^-6 (Micro); round(x, 4) and *)
(* round(x, 6) round an exact rational to a multiple of 100 / 1 units,      *)
(* half to even.  Retrace thresholds are integers in hundredths (RetDen),   *)
(* so 3 is 0.03 and 500 is 5.0.  A return on equity (upnl_pct, peakROE,     *)
(* triggerPct comparisons) is kept as a numerator over the record's         *)
(* entryPrice: roe_num / entryPrice percent.  Times are minutes since the   *)
(* record was created.  A JSON field that is absent or null is None.        *)
(***************************************************************************)
EXTENDS Integers, Sequences, FiniteSets, TLC

VARIABLES
    script,      \* which script evaluates the record: "combined" or "v4"
    state,       \* the persisted position record (the JSON state file)
    now,         \* wall clock at the last invocation, minutes
    result,      \* result dict of the last priced tick (with the tick's locals)
    fetched,     \* the price the last invocation fetched, None when it had none
    closeCalls,  \* close_position subprocess invocations made by the last tick
    answers,     \* what the close collaborator answers to the last tick's attempts
    last,        \* what the last invocation did with the record
    files,       \* the state files of one dsl-combined batch, in sorted order
    cursor,      \* the position of the batch's loop in files
    results,     \* the batch's results list
    errors,      \* the batch's errors list
    crashed,     \* the batch ended in an exception nobody caught
    loaded       \* <<record>> read by an overlapping invocation that has
                 \* not written yet, <<>> when there is none

\* one record followed through successive invocations
record == <<script, state, now, result, fetched, closeCalls, answers, last>>

\* one invocation of dsl-combined followed through its state files
batch == <<files, cursor, results, errors, crashed>>

vars == <<script, state, now, result, fetched, closeCalls, answers, last,
          files, cursor, results, errors, crashed, loaded>>

\* ------------------------------------------------------------------ bounds
MaxNow == 90          \* the clock stops advancing here
MaxBreach == 2        \* cap on currentBreachCount
MaxFails == 2         \* cap on consecutiveFetchFailures
BatchLen == 3         \* state files in a batch
MaxOverlapAt == 0     \* the latest minute an overlapping invocation starts in

\* --------------------------------------------------------------- encodings
None == -2000000000   \* absent / null JSON value
Micro == 1000000      \* price units per 1.0
RetDen == 100         \* retrace units per 1.0

Steps == {0, 45}      \* minutes that may pass between two invocations

\* the prices the feed may hold for an asset (all_mids.get(asset)), as moves
\* from 1.0 in the record's favour
Moves(asset) ==
    IF asset = "B" THEN {20000, 60000}
    ELSE IF asset = "D" THEN {960 - Micro, 990 - Micro}
    ELSE IF asset = "C" THEN {-10000, 0}
    ELSE {-10000, 0, 8000, 10000, 20000}

\* ----------------------------------------------------------------- helpers
Max(a, b) == IF a >= b THEN a ELSE b
Min(a, b) == IF a <= b THEN a ELSE b
Abs(a) == IF a >= 0 THEN a ELSE -a

\* n/d (d > 0) rounded to the nearest integer, half to even
RoundDiv(n, d) ==
    LET q == n \div d
        r == n % d
    IN  IF 2 * r < d THEN q
        ELSE IF 2 * r > d THEN q + 1
        ELSE IF q % 2 = 0 THEN q ELSE q + 1

\* round(n/d, 4) and round(n/d, 6) of a price given in Micro units
Round4(n, d) == RoundDiv(n, d * 100) * 100
Round6(n, d) == RoundDiv(n, d)

\* ------------------------------------------------------------ record access
is_long(st) == st.direction = "LONG"

\* state.get("phase2", {}).get("retraceThreshold", 0.05)
Phase2Retrace(st) ==
    IF st.phase2.retraceThreshold = None THEN 5 ELSE st.phase2.retraceThreshold

\* state.get("phase2", {}).get("consecutiveBreachesRequired", 2)
Phase2Breaches(st) ==
    IF st.phase2.consecutiveBreachesRequired = None THEN 2
    ELSE st.phase2.consecutiveBreachesRequired

\* tiers[i] of the code (0-based)
TierAt(st, i) == st.tiers[i + 1]

\* the main loop's and dsl-v4's guard: inactive records without a pending
\* close are not evaluated
Runnable(st) == st.active \/ st.pendingClose

\* ------------------------------------------------------ auto-fix absoluteFloor
\* correct_floor = round(entry * (1 -/+ retrace_decimal / leverage), 6)
\* retrace_decimal = retrace_roe / 100 if retrace_roe > 1 else retrace_roe;
\* a threshold given in percent is a whole number of percents
RetraceDecimal(st) ==
    IF st.phase1.retraceThreshold > RetDen
    THEN st.phase1.retraceThreshold \div 100
    ELSE st.phase1.retraceThreshold

CorrectFloor(st) ==
    IF is_long(st)
    THEN Round6(st.entryPrice * (RetDen * st.leverage - RetraceDecimal(st)),
                RetDen * st.leverage)
    ELSE Round6(st.entryPrice * (RetDen * st.leverage + RetraceDecimal(st)),
                RetDen * st.leverage)

\* mutant: the computed floor replaces whatever is stored
FinalFloor_Computed(st) == CorrectFloor(st)

FinalFloor(st) ==
    LET correct_floor == CorrectFloor(st)
        existing_floor == IF st.phase1.absoluteFloor = None THEN correct_floor
                          ELSE st.phase1.absoluteFloor
    IN  IF is_long(st)
        THEN IF existing_floor > 0 THEN Min(correct_floor, existing_floor)
             ELSE correct_floor
        ELSE IF existing_floor > 0 THEN Max(correct_floor, existing_floor)
             ELSE correct_floor

\* ------------------------------------------------------------------- uPnL
\* upnl_pct as a numerator over entryPrice: size cancels in upnl / margin
UpnlPctNum(st, price) ==
    IF is_long(st) THEN (price - st.entryPrice) * st.leverage * 100
    ELSE (st.entryPrice - price) * st.leverage * 100

\* upnl_pct >= x and friends, for a percent x given as an integer
RoeGe(st, num, x) == num >= x * st.entryPrice
RoeLt(st, num, x) == num < x * st.entryPrice

\* ------------------------------------------------------- update high water
\* mutant: the high water follows the last price
HighWater_LastPrice(st, price) == price

\* mutant: the high water is the maximum price whatever the direction
HighWater_Max(st, price) ==
    IF price > st.highWaterPrice THEN price ELSE st.highWaterPrice

HighWater(st, price) ==
    IF is_long(st) /\ price > st.highWaterPrice THEN price
    ELSE IF ~is_long(st) /\ price < st.highWaterPrice THEN price
    ELSE st.highWaterPrice

\* mutant: every priced tick stamps the high water
HwTimestamp_EveryTick(st, price, t) == t

HwTimestamp(st, price, t) ==
    IF HighWater(st, price) # st.highWaterPrice \/ st.hwTimestamp = None THEN t
    ELSE st.hwTimestamp

\* ----------------------------------------------------------- tier upgrades
\* mutant: the tier floor is locked from the high water the tick loaded
TierFloor_LoadedHighWater(st, hw, tier) ==
    IF is_long(st)
    THEN Round4(st.entryPrice * 100
                  + (st.highWaterPrice - st.entryPrice) * tier.lockPct, 100)
    ELSE Round4(st.entryPrice * 100
                  - (st.entryPrice - st.highWaterPrice) * tier.lockPct, 100)

\* mutant: a tier locks the whole gain
TierFloor_WholeGain(st, hw, tier) == hw

\* tier_floor = round(entry +/- (hw - entry) * lockPct / 100, 4)
TierFloor(st, hw, tier) ==
    IF is_long(st)
    THEN Round4(st.entryPrice * 100 + (hw - st.entryPrice) * tier.lockPct, 100)
    ELSE Round4(st.entryPrice * 100 - (st.entryPrice - hw) * tier.lockPct, 100)

\* mutant: any tier moves a phase-1 record to phase 2
EntersPhase2_AnyTier(st, phase, i) == phase = 1

\* whether entering tier i moves a phase-1 record to phase 2
EntersPhase2(st, phase, i) == phase = 1 /\ i >= st.phase2TriggerTier

\* mutant: tiers at or below the current one are not skipped
TierStep_NoSkip(st, hw, upnl, i, acc) ==
    IF RoeGe(st, upnl, TierAt(st, i).triggerPct)
    THEN [tier_idx |-> i,
          tier_floor |-> TierFloor(st, hw, TierAt(st, i)),
          phase |-> IF EntersPhase2(st, acc.phase, i) THEN 2 ELSE acc.phase,
          breach_count |-> IF EntersPhase2(st, acc.phase, i) THEN 0
                           ELSE acc.breach_count,
          tier_changed |-> TRUE]
    ELSE acc

\* mutant: entering phase 2 keeps the breaches counted in phase 1
TierStep_KeepsBreaches(st, hw, upnl, i, acc) ==
    IF acc.tier_idx # None /\ i <= acc.tier_idx THEN acc
    ELSE IF RoeGe(st, upnl, TierAt(st, i).triggerPct)
    THEN [tier_idx |-> i,
          tier_floor |-> TierFloor(st, hw, TierAt(st, i)),
          phase |-> IF EntersPhase2(st, acc.phase, i) THEN 2 ELSE acc.phase,
          breach_count |-> acc.breach_count,
          tier_changed |-> TRUE]
    ELSE acc

\* one iteration of the loop over enumerate(tiers); acc holds the locals
\* tier_idx, tier_floor, phase, breach_count, tier_changed
TierStep(st, hw, upnl, i, acc) ==
    IF acc.tier_idx # None /\ i <= acc.tier_idx THEN acc
    ELSE IF RoeGe(st, upnl, TierAt(st, i).triggerPct)
    THEN [tier_idx |-> i,
          tier_floor |-> TierFloor(st, hw, TierAt(st, i)),
          phase |-> IF EntersPhase2(st, acc.phase, i) THEN 2 ELSE acc.phase,
          breach_count |-> IF EntersPhase2(st, acc.phase, i) THEN 0
                           ELSE acc.breach_count,
          tier_changed |-> TRUE]
    ELSE acc

RECURSIVE TierLoop(_, _, _, _, _)
TierLoop(st, hw, upnl, i, acc) ==
    IF i >= Len(st.tiers) THEN acc
    ELSE TierLoop(st, hw, upnl, i + 1, TierStep(st, hw, upnl, i, acc))

\* mutant: the phase is derived afresh from the tiers entered on this tick
TierUpgrades_PhaseAfresh(st, hw, upnl) ==
    TierLoop(st, hw, upnl, 0,
             [tier_idx |-> st.currentTierIndex,
              tier_floor |-> st.tierFloorPrice,
              phase |-> 1,
              breach_count |-> st.currentBreachCount,
              tier_changed |-> FALSE])

\* mutant: the tier is derived afresh from this tick's return
TierUpgrades_FromNone(st, hw, upnl) ==
    TierLoop(st, hw, upnl, 0,
             [tier_idx |-> None,
              tier_floor |-> st.tierFloorPrice,
              phase |-> st.phase,
              breach_count |-> st.currentBreachCount,
              tier_changed |-> FALSE])

TierUpgrades(st, hw, upnl) ==
    TierLoop(st, hw, upnl, 0,
             [tier_idx |-> st.currentTierIndex,
              tier_floor |-> st.tierFloorPrice,
              phase |-> st.phase,
              breach_count |-> st.currentBreachCount,
              tier_changed |-> FALSE])

\* --------------------------------------------------------- effective floor
\* round(hw * (1 -/+ retrace / leverage), 4), retrace in RetDen units
TrailingFloor(st, hw, retrace) ==
    IF is_long(st)
    THEN Round4(hw * (RetDen * st.leverage - retrace), RetDen * st.leverage)
    ELSE Round4(hw * (RetDen * st.leverage + retrace), RetDen * st.leverage)

\* mutant: the phase2 default whatever the tier says
TierRetrace_Default(st, tier_idx) == Phase2Retrace(st)

\* phase 2: tiers[tier_idx].get("retrace", phase2 default), else the default
TierRetrace(st, tier_idx) ==
    IF tier_idx # None /\ tier_idx >= 0
    THEN IF TierAt(st, tier_idx).retrace # None THEN TierAt(st, tier_idx).retrace
         ELSE Phase2Retrace(st)
    ELSE Phase2Retrace(st)

\* abs_floor is the absoluteFloor just written by the auto-fix
EffectiveFloor(st, abs_floor, phase, tier_idx, tier_floor, hw) ==
    IF phase = 1
    THEN IF is_long(st)
         THEN Max(abs_floor, TrailingFloor(st, hw, st.phase1.retraceThreshold))
         ELSE Min(abs_floor, TrailingFloor(st, hw, st.phase1.retraceThreshold))
    ELSE IF is_long(st)
         THEN Max(IF tier_floor = None THEN 0 ELSE tier_floor,
                  TrailingFloor(st, hw, TierRetrace(st, tier_idx)))
         ELSE IF tier_floor = None \/ tier_floor = 0
              THEN TrailingFloor(st, hw, TierRetrace(st, tier_idx))
              ELSE Min(tier_floor, TrailingFloor(st, hw, TierRetrace(st, tier_idx)))

\* breaches_needed of the phase and tier the tick ends in
BreachesNeeded(st, phase, tier_idx) ==
    IF phase = 1 THEN st.phase1.consecutiveBreachesRequired
    ELSE IF tier_idx # None /\ tier_idx >= 0
    THEN IF TierAt(st, tier_idx).breachesRequired # None
         THEN TierAt(st, tier_idx).breachesRequired
         ELSE IF TierAt(st, tier_idx).retraceClose # None
         THEN TierAt(st, tier_idx).retraceClose
         ELSE 2
    ELSE Phase2Breaches(st)

\* state["floorPrice"] = round(effective_floor, 4)
FloorPrice(effective_floor) == Round4(effective_floor, 1)

\* -------------------------------------------------------------- stagnation
\* hw and hw_ts are the high-water price and timestamp after this tick's
\* update; staleHours is kept in minutes
Stagnation(st, upnl, price, hw, hw_ts, t) ==
    /\ st.stagnation.enabled
    /\ RoeGe(st, upnl, st.stagnation.minROE)
    /\ hw_ts # None
    /\ t - hw_ts >= st.stagnation.staleHours
    /\ hw > 0
    /\ Abs(price - hw) * 100 <= st.stagnation.priceRangePct * hw

\* ------------------------------------------------- phase 1 auto-cut (combined)
Phase1MaxMinutes == 90
WeakPeakMinutes == 45
WeakPeakROE == 3

ElapsedMinutes(st, t) == IF st.createdAt = None THEN 0 ELSE t - st.createdAt

\* the local peak_roe after the peak tracking
PeakRoe(st, upnl) ==
    LET peak_roe == IF st.peakROE = None THEN upnl ELSE st.peakROE
    IN  IF upnl > peak_roe THEN upnl ELSE peak_roe

\* the peakROE field as persisted: written only when upnl_pct beat the peak
PeakRoeStored(scr, st, phase, upnl, t) ==
    IF scr = "combined" /\ phase = 1 /\ ElapsedMinutes(st, t) > 0
       /\ upnl > (IF st.peakROE = None THEN upnl ELSE st.peakROE)
    THEN upnl
    ELSE st.peakROE

\* mutant: the 90-minute cap applies in any phase
Phase1Autocut_AnyPhase(scr, st, phase, upnl, t) ==
    IF scr = "combined" /\ ElapsedMinutes(st, t) >= Phase1MaxMinutes
    THEN "Phase 1 timeout"
    ELSE "None"

\* phase1_autocut_reason, or "None" when phase1_autocut is False
Phase1Autocut(scr, st, phase, upnl, t) ==
    IF scr = "combined" /\ phase = 1 /\ ElapsedMinutes(st, t) > 0
    THEN IF ElapsedMinutes(st, t) >= Phase1MaxMinutes THEN "Phase 1 timeout"
         ELSE IF /\ ElapsedMinutes(st, t) >= WeakPeakMinutes
                 /\ RoeLt(st, PeakRoe(st, upnl), WeakPeakROE)
                 /\ upnl < PeakRoe(st, upnl)
         THEN "Weak peak early cut"
         ELSE "None"
    ELSE "None"

\* ------------------------------------------------------------ breach check
Breached(st, price, effective_floor) ==
    IF is_long(st) THEN price <= effective_floor ELSE price >= effective_floor

\* mutant: a tick that does not breach clears the count in either mode
BreachCount_Hard(st, breached, breach_count) ==
    IF breached THEN breach_count + 1 ELSE 0

\* mutant: a tick that does not breach leaves the count as it was
BreachCount_Keeps(st, breached, breach_count) ==
    IF breached THEN breach_count + 1 ELSE breach_count

BreachCount(st, breached, breach_count) ==
    IF breached THEN breach_count + 1
    ELSE IF st.breachDecay = "soft" THEN Max(0, breach_count - 1)
    ELSE 0

\* mutant: a pending close does not force the decision
ShouldClose_NoForce(breach_count, breaches_needed, force_close, stagnation_triggered, phase1_autocut) ==
    \/ breach_count >= breaches_needed
    \/ stagnation_triggered
    \/ phase1_autocut

\* mutant: stagnation does not enter the decision
ShouldClose_NoStagnation(breach_count, breaches_needed, force_close, stagnation_triggered, phase1_autocut) ==
    \/ breach_count >= breaches_needed
    \/ force_close
    \/ phase1_autocut

ShouldClose(breach_count, breaches_needed, force_close, stagnation_triggered, phase1_autocut) ==
    \/ breach_count >= breaches_needed
    \/ force_close
    \/ stagnation_triggered
    \/ phase1_autocut

\* ---------------------------------------------------------- close collaborator
\* One response of `mcporter call senpi close_position`: raised is a timeout
\* or spawn failure of subprocess.run; rc the exit status; error whether the
\* output holds the word "error"; no_position whether it holds
\* CLOSE_NO_POSITION.  The answers offered: a timeout, a failed call that
\* names CLOSE_NO_POSITION, a call that reports CLOSE_NO_POSITION, a clean
\* close.
AttemptOk(r) == ~r.raised /\ r.rc = 0 /\ (~r.error \/ r.no_position)

Responses ==
    {[raised |-> TRUE, rc |-> 1, error |-> FALSE, no_position |-> FALSE],
     [raised |-> FALSE, rc |-> 1, error |-> TRUE, no_position |-> TRUE],
     [raised |-> FALSE, rc |-> 0, error |-> TRUE, no_position |-> TRUE],
     [raised |-> FALSE, rc |-> 0, error |-> FALSE, no_position |-> FALSE]}

\* what the collaborator answers to attempts 1..n of one tick.  An answer
\* that follows a successful one is never read, so it is fixed to the first.
Answers(n) ==
    {resp \in [1..n -> Responses] :
        \A k \in 1..n : (\E j \in 1..(k - 1) : AttemptOk(resp[j]))
                            => resp[k] = resp[1]}

\* close_retries: range(2) in dsl-combined, state.get("closeRetries", 2) in v4
CloseRetries(scr, st) ==
    IF scr = "combined" \/ st.closeRetries = None THEN 2 ELSE st.closeRetries

\* the retry loop from attempt k (0-based) on; resp[k + 1] answers attempt k
RECURSIVE CloseLoop(_, _, _)
CloseLoop(n, resp, k) ==
    IF k >= n
    THEN [closed |-> FALSE, calls |-> n, no_position |-> FALSE,
          close_result |-> IF n = 0 THEN "None"
                           ELSE IF resp[n].raised THEN "error_attempt"
                           ELSE "api_error_attempt",
          answers |-> resp]
    ELSE IF AttemptOk(resp[k + 1])
    THEN [closed |-> TRUE, calls |-> k + 1,
          no_position |-> resp[k + 1].no_position,
          close_result |-> IF resp[k + 1].no_position
                           THEN "position_already_closed" ELSE "result_text",
          answers |-> resp]
    ELSE CloseLoop(n, resp, k + 1)

close_position(n, resp) == CloseLoop(n, resp, 0)

\* every return of close_position the collaborator's answers can produce,
\* by the number of attempts allowed
CloseReturns ==
    [n \in 0..2 |-> {close_position(n, resp) : resp \in Answers(n)}]

CloseOutcomes(scr, st) == CloseReturns[CloseRetries(scr, st)]

\* mutant: the phase-1 auto-cut reason comes before the stagnation reason
CloseReason_TimeoutFirst(scr, stagnation_triggered, autocut_reason) ==
    IF autocut_reason # "None" THEN autocut_reason
    ELSE IF stagnation_triggered
    THEN (IF scr = "combined" THEN "Stagnation TP" ELSE "DSL stagnation TP")
    ELSE "DSL breach"

\* close_reason by priority: stagnation, phase-1 auto-cut, breach
CloseReason(scr, stagnation_triggered, autocut_reason) ==
    IF scr = "combined"
    THEN IF stagnation_triggered THEN "Stagnation TP"
         ELSE IF autocut_reason # "None" THEN autocut_reason
         ELSE "DSL breach"
    ELSE IF stagnation_triggered THEN "DSL stagnation TP" ELSE "DSL breach"

\* ------------------------------------------------- the tick up to the decision
\* The locals of process_position (dsl-v4: of the script body), computed
\* section by section: a section is the record of the locals it leaves,
\* extended (@@, left side first) with the locals of the next one.
Only(S) == CHOOSE x \in S : TRUE

\* after auto-fix, uPnL, high water and the tier upgrades; breach_count is
\* the local as the tier loop leaves it
Ratchet(st, price, t) ==
    Only({[abs_floor |-> FinalFloor(st), upnl |-> UpnlPctNum(st, price),
           hw |-> HighWater(st, price), hw_ts |-> HwTimestamp(st, price, t),
           tier_idx |-> up.tier_idx, tier_floor |-> up.tier_floor,
           phase |-> up.phase, tier_changed |-> up.tier_changed,
           previous_tier_idx |-> st.currentTierIndex,
           force_close |-> st.pendingClose,
           breach_count |-> up.breach_count] :
          up \in {TierUpgrades(st, HighWater(st, price),
                               UpnlPctNum(st, price))}})

\* after the effective floor
Floors(st, price, t) ==
    Only({[effective_floor |->
               EffectiveFloor(st, r.abs_floor, r.phase, r.tier_idx,
                              r.tier_floor, r.hw),
           breaches_needed |-> BreachesNeeded(st, r.phase, r.tier_idx)] @@ r :
          r \in {Ratchet(st, price, t)}})

\* after the stagnation check, the phase 1 auto-cut and the breach check
Checks(scr, st, price, t) ==
    Only({[stagnation_triggered |->
               Stagnation(st, f.upnl, price, f.hw, f.hw_ts, t),
           autocut_reason |-> Phase1Autocut(scr, st, f.phase, f.upnl, t),
           peakROE |-> PeakRoeStored(scr, st, f.phase, f.upnl, t),
           breached |-> Breached(st, price, f.effective_floor),
           breach_count |->
               BreachCount(st, Breached(st, price, f.effective_floor),
                           f.breach_count)] @@ f :
          f \in {Floors(st, price, t)}})

\* with the close decision
Evaluate(scr, st, price, t) ==
    Only({[should_close |->
               ShouldClose(c.breach_count, c.breaches_needed, c.force_close,
                           c.stagnation_triggered, c.autocut_reason # "None")]
          @@ c :
          c \in {Checks(scr, st, price, t)}})

\* the record as the tick has it in memory when the close decision is taken
Evaluated(st, ev) ==
    [st EXCEPT !.consecutiveFetchFailures = 0,
               !.phase1.absoluteFloor = ev.abs_floor,
               !.floorPrice = FloorPrice(ev.effective_floor),
               !.highWaterPrice = ev.hw,
               !.hwTimestamp = ev.hw_ts,
               !.currentTierIndex = ev.tier_idx,
               !.tierFloorPrice = ev.tier_floor,
               !.phase = ev.phase,
               !.peakROE = ev.peakROE,
               !.currentBreachCount = ev.breach_count]

\* the outcome of the close step: cl is close_position's return when the
\* collaborator was called, NoClose otherwise
NoClose == [closed |-> FALSE, calls |-> 0, no_position |-> FALSE,
            close_result |-> "None", answers |-> <<>>]

\* mutant: a successful close records no reason
CloseSucceeded_NoReason(e, cl, reason, t) ==
    [e EXCEPT !.active = FALSE, !.pendingClose = FALSE, !.closedAt = t]

\* the record after a close attempt that succeeded
CloseSucceeded(e, cl, reason, t) ==
    [e EXCEPT !.active = FALSE, !.pendingClose = FALSE, !.closedAt = t,
              !.closeReason = IF cl.no_position THEN "position_already_closed"
                              ELSE reason]

\* mutant: exhausted retries leave the record as it was
CloseFailed_Forgets(e) == e

\* the record after the retries are exhausted
CloseFailed(e) == [e EXCEPT !.pendingClose = TRUE]

\* the record of a tick that decided to close and found no wallet
NoWallet(scr, e) ==
    IF scr = "v4" THEN [e EXCEPT !.pendingClose = TRUE] ELSE e

\* the record written at the end of the tick
Saved(scr, st, ev, cl, price, t) ==
    LET e == Evaluated(st, ev)
        reason == CloseReason(scr, ev.stagnation_triggered, ev.autocut_reason)
        c == IF ~ev.should_close THEN e
             ELSE IF st.wallet = "" THEN NoWallet(scr, e)
             ELSE IF cl.closed THEN CloseSucceeded(e, cl, reason, t)
             ELSE CloseFailed(e)
    IN  [c EXCEPT !.lastCheck = t, !.lastPrice = price]

\* the result dict, with the locals previous_tier_idx and force_close; its
\* price, phase and hw are the record's lastPrice, phase and highWaterPrice
Result(scr, st, ev, cl, price, saved) ==
    [floor |-> ev.effective_floor,
     status |-> IF cl.closed
                THEN (IF scr = "combined" THEN "closed" ELSE "inactive")
                ELSE IF saved.pendingClose THEN "pending_close" ELSE "active",
     breach_count |-> ev.breach_count, breaches_needed |-> ev.breaches_needed,
     breached |-> ev.breached, should_close |-> ev.should_close,
     closed |-> cl.closed,
     close_reason |-> IF ev.should_close
                      THEN CloseReason(scr, ev.stagnation_triggered,
                                       ev.autocut_reason)
                      ELSE "None",
     close_result |-> IF ev.should_close /\ st.wallet = "" /\ scr = "v4"
                      THEN "error: no wallet in state file"
                      ELSE cl.close_result,
     tier_changed |-> ev.tier_changed,
     previous_tier_idx |-> ev.previous_tier_idx,
     force_close |-> ev.force_close,
     stagnation_triggered |-> ev.stagnation_triggered,
     phase1_autocut |-> ev.autocut_reason # "None"]

\* ------------------------------------------------------------ initial records
\* tier definitions {triggerPct, lockPct, retrace?, breachesRequired?,
\* retraceClose?}
Tiers ==
    << [triggerPct |-> 5, lockPct |-> 10, retrace |-> None,
        breachesRequired |-> None, retraceClose |-> None],
       [triggerPct |-> 10, lockPct |-> 50, retrace |-> 1,
        breachesRequired |-> 1, retraceClose |-> None] >>

\* a record as it is created when a position is opened: phase 1, no tier,
\* high water at the entry price, nothing evaluated yet
NewRecord(direction, wallet, breachDecay, retrace, trigger) ==
    [asset |-> "A",
     direction |-> direction, wallet |-> wallet, breachDecay |-> breachDecay,
     maxFetchFailures |-> 2, closeRetries |-> None,
     entryPrice |-> Micro, leverage |-> 5,
     highWaterPrice |-> Micro, hwTimestamp |-> None,
     phase |-> 1, currentBreachCount |-> 0,
     currentTierIndex |-> None, tierFloorPrice |-> None,
     tiers |-> Tiers, phase2TriggerTier |-> trigger,
     phase1 |-> [retraceThreshold |-> retrace,
                 consecutiveBreachesRequired |-> 2,
                 absoluteFloor |-> None],
     phase2 |-> [retraceThreshold |-> None,
                 consecutiveBreachesRequired |-> None],
     stagnation |-> [enabled |-> TRUE, minROE |-> 4, staleHours |-> 45,
                     priceRangePct |-> 1],
     floorPrice |-> None, peakROE |-> None, createdAt |-> 0,
     active |-> TRUE, pendingClose |-> FALSE,
     closedAt |-> None, closeReason |-> "None",
     lastCheck |-> None, lastPrice |-> None,
     consecutiveFetchFailures |-> 0]

NoResult ==
    [floor |-> None, status |-> "active", breach_count |-> 0,
     breaches_needed |-> 0, breached |-> FALSE, should_close |-> FALSE,
     closed |-> FALSE, close_reason |-> "None", close_result |-> "None",
     tier_changed |-> FALSE, previous_tier_idx |-> None, force_close |-> FALSE,
     stagnation_triggered |-> FALSE, phase1_autocut |-> FALSE]

\* a record whose phase1.absoluteFloor was set by hand when it was created
WithFloor(st, floor) == [st EXCEPT !.phase1.absoluteFloor = floor]

\* a record created with phase2 defaults of its own
WithPhase2(st, retrace, breaches) ==
    [st EXCEPT !.phase2 = [retraceThreshold |-> retrace,
                           consecutiveBreachesRequired |-> breaches]]

\* a LONG record on asset B with the single tier {triggerPct 5, lockPct 50}
\* and phase1 retraceThreshold 0.05
OneTier(wallet, trigger) ==
    [NewRecord("LONG", wallet, "hard", 5, trigger) EXCEPT
        !.asset = "B",
        !.tiers = << [triggerPct |-> 5, lockPct |-> 50, retrace |-> None,
                      breachesRequired |-> None, retraceClose |-> None] >>]

\* a record on asset C entered below 1.0, created with its high water at the
\* entry price
EnteredAt(st, entry) ==
    [st EXCEPT !.asset = "C", !.entryPrice = entry, !.highWaterPrice = entry]

\* the runs: which script evaluates which record.  Every two settings of
\* script, direction, wallet, breachDecay, phase1.retraceThreshold (0.03 or
\* the percent form 5.0) and phase2TriggerTier occur together in some run
\* without a stored absoluteFloor; the last five runs start from a stored
\* one: tighter than the computed floor (0.994 LONG, 1.006 SHORT), zero, and
\* more lenient than it.  One of them has phase2 defaults of its own
\* (retraceThreshold 0.03, consecutiveBreachesRequired 1), the others take
\* the code's.  Then come the records with a single tier, with
\* phase2TriggerTier 0 and 1, and a record entered at 0.9, for which the
\* prices 1.0 and 0.99 are in profit and exactly 1% apart.
Runs ==
    {<<"combined", NewRecord("LONG", "", "hard", 3, 0)>>,
     <<"combined", NewRecord("LONG", "0xW", "soft", 3, 1)>>,
     <<"combined", NewRecord("SHORT", "", "soft", 500, 1)>>,
     <<"combined", NewRecord("SHORT", "0xW", "hard", 500, 0)>>,
     <<"v4", NewRecord("LONG", "", "soft", 500, 0)>>,
     <<"v4", NewRecord("LONG", "0xW", "hard", 500, 1)>>,
     <<"v4", NewRecord("SHORT", "", "hard", 3, 1)>>,
     <<"v4", NewRecord("SHORT", "0xW", "soft", 3, 0)>>,
     <<"combined", WithFloor(NewRecord("LONG", "", "hard", 3, 0), 998000)>>,
     <<"v4", WithPhase2(WithFloor(NewRecord("SHORT", "0xW", "soft", 3, 0),
                                  1002000), 3, 1)>>,
     <<"combined", WithFloor(NewRecord("SHORT", "", "soft", 500, 1), 0)>>,
     <<"v4", WithFloor(NewRecord("LONG", "0xW", "soft", 3, 1), 980000)>>,
     <<"v4", WithFloor(NewRecord("SHORT", "", "hard", 3, 1), 1020000)>>,
     <<"combined", OneTier("", 0)>>,
     <<"v4", OneTier("0xW", 1)>>,
     <<"v4", EnteredAt(NewRecord("LONG", "0xW", "hard", 3, 0), 900000)>>}

\* no batch under way
NoBatch ==
    /\ files = <<>>
    /\ cursor = 1
    /\ results = <<>>
    /\ errors = <<>>
    /\ crashed = FALSE

Init ==
    /\ \E run \in Runs : script = run[1] /\ state = run[2]
    /\ now = 0
    /\ result = NoResult
    /\ fetched = None
    /\ closeCalls = 0
    /\ answers = <<>>
    /\ last = "created"
    /\ NoBatch
    /\ loaded = <<>>

\* ------------------------------------------------------------------- actions
\* state.get("maxFetchFailures", 10)
MaxFetchFailures(st) ==
    IF st.maxFetchFailures = None THEN 10 ELSE st.maxFetchFailures

\* the end of a priced tick: the record is written and the result reported
Finish(ev, cl, price, t) ==
    /\ closeCalls' = cl.calls
    /\ answers' = cl.answers
    /\ \E saved \in {Saved(script, state, ev, cl, price, t)} :
        /\ state' = saved
        /\ result' = Result(script, state, ev, cl, price, saved)
    /\ UNCHANGED <<script, batch, loaded>>

\* an invocation that resolves a price for the record
PricedTick ==
    \E step \in Steps, move \in Moves(state.asset) :
        LET t == now + step
            price == IF is_long(state) THEN Micro + move ELSE Micro - move
        IN  /\ Runnable(state)
            /\ t <= MaxNow
            /\ now' = t
            /\ fetched' = price
            /\ last' = "priced"
            /\ \E ev \in {Evaluate(script, state, price, t)} :
                /\ ev.breach_count <= MaxBreach
                /\ IF ev.should_close /\ state.wallet # ""
                   THEN \E cl \in CloseOutcomes(script, state) :
                            Finish(ev, cl, price, t)
                   ELSE Finish(ev, NoClose, price, t)

\* f"Auto-deactivated: {fails} consecutive fetch failures"
Deactivated(fails) ==
    "Auto-deactivated: " \o ToString(fails) \o " consecutive fetch failures"

\* mutant: the record is deactivated one failure after the ceiling
FetchFailed_Late(st, t) ==
    LET fails == st.consecutiveFetchFailures + 1
        counted == [st EXCEPT !.consecutiveFetchFailures = fails,
                              !.lastCheck = t]
    IN  IF fails > MaxFetchFailures(st)
        THEN [counted EXCEPT !.active = FALSE,
                             !.closeReason = Deactivated(fails)]
        ELSE counted

\* mutant: a failed fetch clears the breach count
FetchFailed_ClearsBreaches(st, t) ==
    LET fails == st.consecutiveFetchFailures + 1
        counted == [st EXCEPT !.consecutiveFetchFailures = fails,
                              !.lastCheck = t,
                              !.currentBreachCount = 0]
    IN  IF fails >= MaxFetchFailures(st)
        THEN [counted EXCEPT !.active = FALSE,
                             !.closeReason = Deactivated(fails)]
        ELSE counted

\* the record after a failed price fetch
FetchFailed(st, t) ==
    LET fails == st.consecutiveFetchFailures + 1
        counted == [st EXCEPT !.consecutiveFetchFailures = fails,
                              !.lastCheck = t]
    IN  IF fails >= MaxFetchFailures(st)
        THEN [counted EXCEPT !.active = FALSE,
                             !.closeReason = Deactivated(fails)]
        ELSE counted

\* an invocation whose price fetch fails
FetchFailedTick ==
    \E step \in Steps :
        /\ Runnable(state)
        /\ now + step <= MaxNow
        /\ state.consecutiveFetchFailures < MaxFails
        /\ state' = FetchFailed(state, now + step)
        /\ now' = now + step
        /\ fetched' = None
        /\ closeCalls' = 0
        /\ answers' = <<>>
        /\ last' = "fetch_failed"
        /\ UNCHANGED <<script, result, batch, loaded>>

\* an invocation that finds the record inactive with no close pending
InactiveTick ==
    \E step \in Steps :
        /\ ~Runnable(state)
        /\ now + step <= MaxNow
        /\ now' = now + step
        /\ fetched' = None
        /\ closeCalls' = 0
        /\ answers' = <<>>
        /\ last' = "inactive"
        /\ UNCHANGED <<script, state, result, batch, loaded>>

Next == PricedTick \/ FetchFailedTick \/ InactiveTick

Spec == Init /\ [][Next]_vars

\* a priced tick that retries a pending close and succeeds
ClosingTick == state.pendingClose /\ PricedTick /\ result'.closed

\* The records of dsl-combined that have a wallet, under a scheduler that
\* keeps invoking the script: while a close is pending, a tick on which the
\* price is fetched and the close collaborator answers with a success is not
\* put off for ever.
FairInit == Init /\ script = "combined" /\ state.wallet # ""

FairSpec == FairInit /\ [][Next]_vars /\ WF_vars(ClosingTick)

\* ---------------------------------------------------- overlapping invocations
\* Neither script takes a lock: a second invocation may read the state file
\* while the first has read it and not yet written.

\* the overlapping invocation reads the state file
OverlapLoad ==
    /\ loaded = <<>>
    /\ Runnable(state)
    /\ now <= MaxOverlapAt
    /\ loaded' = <<state>>
    /\ UNCHANGED <<record, batch>>

\* the other invocation, having read the same record, runs to its write
OverlapFirst ==
    /\ loaded # <<>>
    /\ state = loaded[1]
    /\ (PricedTick \/ FetchFailedTick)

\* the overlapping invocation resolves a price, evaluates the record it read
\* and writes it: open(state_file, "w") replaces whatever is stored
OverlapPricedWrite ==
    \E move \in Moves(state.asset) :
        LET st == loaded[1]
            price == IF is_long(st) THEN Micro + move ELSE Micro - move
        IN  /\ loaded # <<>>
            /\ fetched' = price
            /\ last' = "overlapped"
            /\ loaded' = <<>>
            /\ \E ev \in {Evaluate(script, st, price, now)} :
                /\ ev.breach_count <= MaxBreach
                /\ \E cl \in IF ev.should_close /\ st.wallet # ""
                             THEN CloseOutcomes(script, st) ELSE {NoClose} :
                    /\ closeCalls' = cl.calls
                    /\ answers' = cl.answers
                    /\ \E saved \in {Saved(script, st, ev, cl, price, now)} :
                        /\ state' = saved
                        /\ result' = Result(script, st, ev, cl, price, saved)
            /\ UNCHANGED <<script, now, batch>>

\* the overlapping invocation fails to fetch and writes the record it read
OverlapFetchFailedWrite ==
    /\ loaded # <<>>
    /\ loaded[1].consecutiveFetchFailures < MaxFails
    /\ state' = FetchFailed(loaded[1], now)
    /\ fetched' = None
    /\ closeCalls' = 0
    /\ answers' = <<>>
    /\ last' = "overlapped"
    /\ loaded' = <<>>
    /\ UNCHANGED <<script, now, result, batch>>

OverlapNext ==
    \/ loaded = <<>> /\ Next
    \/ OverlapLoad
    \/ OverlapFirst
    \/ OverlapPricedWrite
    \/ OverlapFetchFailedWrite

OverlapInit ==
    /\ Init
    /\ state.asset = "A"
    /\ state.entryPrice = Micro
    /\ state.wallet # ""
    /\ state.phase1.absoluteFloor = None
    /\ state.phase2TriggerTier = 0

OverlapSpec == OverlapInit /\ [][OverlapNext]_vars

\* ------------------------------------------------------- low-priced assets
\* a LONG record on asset D, which trades near 0.001: entered at 0.00096 with
\* its high water at the entry price; the feed holds 0.00096 or 0.00099
LowPriced(st) ==
    [st EXCEPT !.asset = "D", !.entryPrice = 960, !.highWaterPrice = 960]

LowPricedRuns ==
    {<<"combined", LowPriced(NewRecord("LONG", "", "hard", 3, 0))>>,
     <<"combined", LowPriced(NewRecord("LONG", "0xW", "hard", 3, 1))>>,
     <<"v4", LowPriced(NewRecord("LONG", "0xW", "soft", 3, 0))>>,
     <<"v4", LowPriced(NewRecord("LONG", "", "soft", 3, 1))>>}

LowPricedInit ==
    /\ \E run \in LowPricedRuns : script = run[1] /\ state = run[2]
    /\ now = 0
    /\ result = NoResult
    /\ fetched = None
    /\ closeCalls = 0
    /\ answers = <<>>
    /\ last = "created"
    /\ NoBatch
    /\ loaded = <<>>

LowPricedSpec == LowPricedInit /\ [][Next]_vars

\* ------------------------------------------------------------ interrupted ticks
\* mutant: the record is written before the close collaborator is called
Interrupted_SavedBeforeClose(st, ev, calls) ==
    IF calls > 0 THEN Evaluated(st, ev) ELSE st

\* the stored record when the process dies before the tick's write, after
\* `calls` close attempts: every change so far is in memory only
Interrupted(st, ev, calls) == st

\* an invocation that fetches a price and is killed before it writes the
\* record: before the close step, or after some of its close attempts
InterruptedTick ==
    \E step \in Steps, move \in Moves(state.asset) :
        LET t == now + step
            price == IF is_long(state) THEN Micro + move ELSE Micro - move
        IN  /\ Runnable(state)
            /\ t <= MaxNow
            /\ now' = t
            /\ fetched' = None
            /\ last' = "interrupted"
            /\ answers' = <<>>
            /\ \E ev \in {Evaluate(script, state, price, t)} :
               \E calls \in IF ev.should_close /\ state.wallet # ""
                            THEN 0..CloseRetries(script, state) ELSE {0} :
                    /\ closeCalls' = calls
                    /\ state' = Interrupted(state, ev, calls)
            /\ UNCHANGED <<script, result, batch, loaded>>

CrashNext == Next \/ InterruptedTick

\* the records on asset A that have a wallet, were created without a stored
\* floor and enter phase 2 with their first tier: one of each script
CrashInit ==
    /\ Init
    /\ state.asset = "A" /\ state.entryPrice = Micro
    /\ state.wallet # "" /\ state.phase1.absoluteFloor = None
    /\ state.phase2TriggerTier = 0

CrashSpec == CrashInit /\ [][CrashNext]_vars

\* ------------------------------------------------------- the batch's main loop
\* A state file is its text: json tells whether json.load accepts it, state
\* is the record it holds.  The files a batch may find: one that does not
\* parse, an inactive record, a record ready to be evaluated, a record with
\* leverage 0 and one without entryPrice.
Unparsable == [json |-> FALSE, state |-> NewRecord("LONG", "0xW", "hard", 3, 0)]

StateFile(st) == [json |-> TRUE, state |-> st]

StateFiles ==
    {Unparsable,
     StateFile([NewRecord("LONG", "0xW", "hard", 3, 0) EXCEPT !.active = FALSE]),
     StateFile(NewRecord("LONG", "0xW", "hard", 3, 0)),
     StateFile([NewRecord("SHORT", "0xW", "soft", 3, 0) EXCEPT !.leverage = 0]),
     StateFile([NewRecord("LONG", "", "hard", 3, 0) EXCEPT !.entryPrice = None])}

\* process_position raises: state["entryPrice"] is a KeyError, a leverage
\* of 0 divides by zero in retrace_price, an entry of 0 in upnl / margin
Raises(st) == st.entryPrice = None \/ st.leverage = 0 \/ st.entryPrice = 0

\* the prices the batch fetch may hold for a record
BatchPrices == {Micro - 10000, Micro + 8000}

BatchInit ==
    /\ script = "combined"
    /\ state = NewRecord("LONG", "0xW", "hard", 3, 0)
    /\ now = 45
    /\ result = NoResult
    /\ fetched = None
    /\ closeCalls = 0
    /\ answers = <<>>
    /\ last = "created"
    /\ files \in [1..BatchLen -> StateFiles]
    /\ cursor = 1
    /\ results = <<>>
    /\ errors = <<>>
    /\ crashed = FALSE
    /\ loaded = <<>>

\* the loop is at a state file
AtFile == ~crashed /\ cursor <= Len(files)

\* json.load fails: an error entry, and on to the next file
LoadFails ==
    /\ AtFile
    /\ ~files[cursor].json
    /\ errors' = Append(errors, [file |-> cursor, error |-> "load"])
    /\ cursor' = cursor + 1
    /\ UNCHANGED <<loaded, record, files, results, crashed>>

\* an inactive record with no close pending is passed over
SkipInactive ==
    /\ AtFile
    /\ files[cursor].json
    /\ ~Runnable(files[cursor].state)
    /\ cursor' = cursor + 1
    /\ UNCHANGED <<loaded, record, files, results, errors, crashed>>

\* no price for the record: the failure is counted, saved and reported
BatchFetchFailed ==
    /\ AtFile
    /\ files[cursor].json
    /\ Runnable(files[cursor].state)
    /\ files' = [files EXCEPT
                   ![cursor].state = FetchFailed(files[cursor].state, now)]
    /\ errors' = Append(errors, [file |-> cursor, error |-> "price_fetch_failed"])
    /\ cursor' = cursor + 1
    /\ UNCHANGED <<loaded, record, results, crashed>>

\* process_position returns: the record is saved and its result appended
Process ==
    /\ AtFile
    /\ files[cursor].json
    /\ Runnable(files[cursor].state)
    /\ ~Raises(files[cursor].state)
    /\ \E price \in BatchPrices :
        \E ev \in {Evaluate("combined", files[cursor].state, price, now)} :
        \E cl \in IF ev.should_close /\ files[cursor].state.wallet # ""
                  THEN CloseOutcomes("combined", files[cursor].state)
                  ELSE {NoClose} :
        \E saved \in {Saved("combined", files[cursor].state, ev, cl, price, now)} :
            /\ files' = [files EXCEPT ![cursor].state = saved]
            /\ results' = Append(results,
                    [file |-> cursor,
                     status |-> Result("combined", files[cursor].state, ev,
                                       cl, price, saved).status])
    /\ cursor' = cursor + 1
    /\ UNCHANGED <<loaded, record, errors, crashed>>

\* process_position raises: the call is not inside a try, the exception
\* ends the script before the record is saved and before any output
ProcessRaises ==
    /\ AtFile
    /\ files[cursor].json
    /\ Runnable(files[cursor].state)
    /\ Raises(files[cursor].state)
    /\ crashed' = TRUE
    /\ UNCHANGED <<loaded, record, files, cursor, results, errors>>

BatchNext ==
    LoadFails \/ SkipInactive \/ BatchFetchFailed \/ Process \/ ProcessRaises

BatchSpec == BatchInit /\ [][BatchNext]_vars

\* ================================================================== claims
Priced == last = "priced"

\* at least as favourable to the position: above for LONG, below for SHORT
AtLeast(st, a, b) == IF is_long(st) THEN a >= b ELSE a <= b
Better(st, a, b) == IF is_long(st) THEN a > b ELSE a < b

\* C1: between two consecutive priced ticks of an active record the effective
\* floor used for the breach test never moves in the loosening direction,
\* tier advances and the phase change included.
C1_FloorNeverLoosens ==
    [][(last' = "priced" /\ state.active /\ result.floor # None)
         => AtLeast(state, result'.floor, result.floor)]_vars

\* C2: between two consecutive priced ticks that leave phase and
\* currentTierIndex unchanged, the persisted floorPrice never moves in the
\* loosening direction.
C2_FloorMonotoneWithinTier ==
    [][(/\ last' = "priced"
        /\ state.floorPrice # None
        /\ state'.phase = state.phase
        /\ state'.currentTierIndex = state.currentTierIndex)
         => AtLeast(state, state'.floorPrice, state.floorPrice)]_vars

\* a phase-1 record without a tier whose floor has trailed the high water
\* above the absolute floor, seen on a tick priced off the high water
C2_Witness ==
    /\ Priced
    /\ state.phase = 1
    /\ state.currentTierIndex = None
    /\ Better(state, state.floorPrice, state.phase1.absoluteFloor)
    /\ Better(state, state.highWaterPrice, state.lastPrice)

\* C3: over priced and fetch-failure ticks in any order the persisted
\* highWaterPrice never retreats, and after a priced tick it is at least as
\* favourable as that tick's price.
C3_HighWaterMonotone ==
    [][/\ AtLeast(state, state'.highWaterPrice, state.highWaterPrice)
       /\ last' = "priced"
            => AtLeast(state, state'.highWaterPrice, state'.lastPrice)]_vars

\* a high water above entry that outlived a tick at a worse price and then
\* a fetch failure
C3_Witness ==
    /\ last = "fetch_failed"
    /\ Better(state, state.highWaterPrice, state.entryPrice)
    /\ Better(state, state.highWaterPrice, state.lastPrice)

\* C4: currentTierIndex never decreases and never returns from a tier to none.
C4_TierIndexMonotone ==
    [][/\ state'.currentTierIndex >= state.currentTierIndex
       /\ state.currentTierIndex # None => state'.currentTierIndex # None]_vars

\* the record sits in tier 1 on a tick whose price no longer reaches the
\* trigger of tier 0
C4_Witness ==
    /\ Priced
    /\ state.currentTierIndex = 1
    /\ ~RoeGe(state, UpnlPctNum(state, state.lastPrice), TierAt(state, 0).triggerPct)

\* C5: once the persisted phase is 2 no tick of any kind returns it to 1.
C5_PhaseOneWay ==
    [][state.phase = 2 => state'.phase = 2]_vars

\* a phase-2 record priced at a loss with a close still pending
C5_Witness ==
    /\ Priced
    /\ state.phase = 2
    /\ Better(state, state.entryPrice, state.lastPrice)
    /\ state.pendingClose

\* C6: at the end of every priced tick that decided to close, the record is
\* closed or has pendingClose set, whatever its wallet.
C6_CloseIntentKept ==
    (Priced /\ result.should_close) => (~state.active \/ state.pendingClose)

C8_Decided == Priced /\ result.should_close /\ state.wallet # ""

C8_Closed == ~state.active /\ ~state.pendingClose

C9_NoPositionIsSuccess ==
    \A k \in 1..closeCalls :
        (Priced /\ ~answers[k].raised /\ answers[k].no_position)
            => /\ k = closeCalls
               /\ ~state.active /\ ~state.pendingClose
               /\ state.closeReason = "position_already_closed"

\* C10: on a priced tick shouldClose is true exactly when the persisted
\* breach count reaches breachesNeeded of the persisted phase and tier, or
\* the loaded record had pendingClose, or stagnation triggered, or the
\* phase-1 timeout guard triggered; the close collaborator is only invoked
\* when shouldClose is true.
C10_ShouldCloseIffTrigger ==
    [][last' = "priced" =>
        /\ result'.should_close <=>
            \/ state'.currentBreachCount
                 >= BreachesNeeded(state', state'.phase, state'.currentTierIndex)
            \/ state.pendingClose
            \/ result'.stagnation_triggered
            \/ result'.phase1_autocut
        /\ closeCalls' > 0 => result'.should_close]_vars

\* a close invoked on a tick where stagnation is the only trigger
C10_Witness ==
    /\ Priced /\ result.should_close /\ closeCalls > 0
    /\ result.stagnation_triggered
    /\ ~result.force_close /\ ~result.phase1_autocut
    /\ state.currentBreachCount
         < BreachesNeeded(state, state.phase, state.currentTierIndex)

\* C11: once active is false the record is terminal: no later tick of any
\* kind modifies highWaterPrice, currentTierIndex, tierFloorPrice, phase,
\* floorPrice or absoluteFloor, also when the fetch-failure ceiling
\* deactivated the record while a close was pending.
C11_InactiveIsTerminal ==
    [][~state.active =>
        /\ state'.highWaterPrice = state.highWaterPrice
        /\ state'.currentTierIndex = state.currentTierIndex
        /\ state'.tierFloorPrice = state.tierFloorPrice
        /\ state'.phase = state.phase
        /\ state'.floorPrice = state.floorPrice
        /\ state'.phase1.absoluteFloor = state.phase1.absoluteFloor]_vars

\* C12: a failed fetch adds one to consecutiveFetchFailures and a priced tick
\* resets it to 0; the failed fetch on which the count reaches
\* maxFetchFailures sets active to false with a closeReason that names the
\* count, and no failed fetch invokes the close collaborator; a failed fetch
\* below the ceiling leaves active and closeReason as they were, so a record
\* goes from active to inactive by the price feed exactly at the ceiling.
C12_FailSafeDeactivation ==
    [][/\ last' = "priced" => state'.consecutiveFetchFailures = 0
       /\ last' = "fetch_failed" =>
            /\ state'.consecutiveFetchFailures
                 = state.consecutiveFetchFailures + 1
            /\ closeCalls' = 0
            /\ IF state'.consecutiveFetchFailures >= MaxFetchFailures(state)
               THEN /\ ~state'.active
                    /\ state'.closeReason
                         = "Auto-deactivated: "
                             \o ToString(state'.consecutiveFetchFailures)
                             \o " consecutive fetch failures"
               ELSE /\ state'.active = state.active
                    /\ state'.closeReason = state.closeReason
            /\ (state.active /\ ~state'.active)
                 => state'.consecutiveFetchFailures = MaxFetchFailures(state)]_vars

\* a record that had been priced, deactivated by its second failed fetch in
\* a row
C12_Witness ==
    /\ last = "fetch_failed"
    /\ state.lastPrice # None
    /\ ~state.active
    /\ state.consecutiveFetchFailures = MaxFetchFailures(state)
    /\ state.closeReason = "Auto-deactivated: 2 consecutive fetch failures"
    /\ closeCalls = 0

\* file i of the batch has been dealt with: it has a result or an error
\* entry, or holds an inactive record
Handled(i) ==
    \/ \E k \in 1..Len(results) : results[k].file = i
    \/ \E k \in 1..Len(errors) : errors[k].file = i
    \/ files[i].json /\ ~Runnable(files[i].state)

\* C13: a record that fails to parse or raises anywhere in its pipeline never
\* aborts the batch: the loop goes on, and every file it has passed has a
\* result or an error entry unless its record is inactive.
C13_FailureIsolated ==
    /\ ~crashed
    /\ \A i \in 1..Len(files) : i < cursor => Handled(i)

\* the count a priced tick persists from the count n it starts from
Decayed(st, breached, n) ==
    IF breached THEN n + 1
    ELSE IF st.breachDecay = "hard" THEN 0
    ELSE IF n >= 1 THEN n - 1 ELSE 0

\* the tick moved the record from phase 1 to phase 2
PhaseChanged == state.phase = 1 /\ state'.phase = 2

\* C14 as stated: with n the loaded breach count, a priced tick that does not
\* breach persists 0 in hard mode and max(0, n - 1) in soft mode; a breaching
\* tick persists n + 1 unless the phase changed 1 -> 2 on that tick.
C14_DecayOfLoadedCount ==
    [][last' = "priced" =>
        IF result'.breached
        THEN PhaseChanged
               \/ state'.currentBreachCount = state.currentBreachCount + 1
        ELSE state'.currentBreachCount
               = Decayed(state, FALSE, state.currentBreachCount)]_vars

\* C14, amended: the rule applies to the count the breach check starts from,
\* which is the loaded count, or 0 on the tick the phase changes 1 -> 2: a
\* tick that does not breach persists 0 in hard mode and max(0, n - 1) in
\* soft mode, a breaching tick n + 1 in both modes.
C14_BreachDecay ==
    [][last' = "priced" =>
        state'.currentBreachCount
          = Decayed(state, result'.breached,
                    IF PhaseChanged THEN 0 ELSE state.currentBreachCount)]_vars

\* a soft-mode record that had two breaches counted, after a tick that does
\* not breach
C14_Witness ==
    /\ Priced
    /\ state.breachDecay = "soft"
    /\ ~result.breached
    /\ state.currentBreachCount = 1

\* C15: the absoluteFloor a priced tick writes is at least as lenient as a
\* stored one that was set (> 0), equals the computed floor when none was
\* set (absent or <= 0), and is left unchanged when the reconciler is run
\* again on the record just written.
C15_ReconcilerNeverTightens ==
    [][last' = "priced" =>
        /\ IF state.phase1.absoluteFloor # None /\ state.phase1.absoluteFloor > 0
           THEN AtLeast(state, state.phase1.absoluteFloor,
                        state'.phase1.absoluteFloor)
           ELSE state'.phase1.absoluteFloor = CorrectFloor(state)
        /\ FinalFloor(state') = state'.phase1.absoluteFloor
        /\ state.lastPrice # None
             => state'.phase1.absoluteFloor = state.phase1.absoluteFloor]_vars

\* a stored floor more lenient than the computed one, kept by two priced
\* ticks
C15_Witness ==
    /\ Priced
    /\ state.currentBreachCount = 2
    /\ Better(state, CorrectFloor(state), state.phase1.absoluteFloor)

\* C16: in phase 1 the effective floor is max(absoluteFloor, highWater x
\* (1 - retracePrice)) for LONG and min(absoluteFloor, highWater x
\* (1 + retracePrice)) for SHORT, where retracePrice is the quantity
\* (retraceThresholdPct / 100) / leverage the reconciler computes the
\* absolute floor from, whether the threshold is stored as a percent or as
\* a fraction.
C16_Phase1FloorUsesRetracePrice ==
    (Priced /\ state.phase = 1) =>
        result.floor
          = IF is_long(state)
            THEN Max(state.phase1.absoluteFloor,
                     TrailingFloor(state, state.highWaterPrice,
                                   RetraceDecimal(state)))
            ELSE Min(state.phase1.absoluteFloor,
                     TrailingFloor(state, state.highWaterPrice,
                                   RetraceDecimal(state)))

\* the active tier's own retrace if present, else phase2's retraceThreshold,
\* 0.05 when the record has none
ActiveRetrace ==
    IF state.tiers[state.currentTierIndex + 1].retrace # None
    THEN state.tiers[state.currentTierIndex + 1].retrace
    ELSE IF state.phase2.retraceThreshold # None
    THEN state.phase2.retraceThreshold
    ELSE 5

\* C17: in phase 2 the effective floor is max(tierFloorPrice, highWater x
\* (1 - r / leverage)) for LONG, min with the mirrored trailing value for
\* SHORT, r being the active tier's own retrace if present and else the
\* phase2 default; so it is never less protective than tierFloorPrice.
C17_Phase2Floor ==
    (Priced /\ state.phase = 2) =>
        /\ result.floor
             = IF is_long(state)
               THEN Max(state.tierFloorPrice,
                        Round4(state.highWaterPrice
                                 * (RetDen * state.leverage - ActiveRetrace),
                               RetDen * state.leverage))
               ELSE Min(state.tierFloorPrice,
                        Round4(state.highWaterPrice
                                 * (RetDen * state.leverage + ActiveRetrace),
                               RetDen * state.leverage))
        /\ AtLeast(state, result.floor, state.tierFloorPrice)

\* a phase-2 record in a tier without a retrace of its own, with a phase2
\* default of its own, whose trailing floor is above the locked tier floor
C17_Witness ==
    /\ Priced
    /\ state.phase = 2
    /\ state.currentTierIndex = 0
    /\ state.phase2.retraceThreshold # None
    /\ Better(state, result.floor, state.tierFloorPrice)

\* C18: in phase 2 breachesNeeded is the active tier's breachesRequired if
\* present, else the active tier's retraceClose if present, else phase2's
\* consecutiveBreachesRequired (2 when the record has none).
C18_BreachesNeededPriority ==
    (Priced /\ state.phase = 2) =>
        result.breaches_needed
          = IF state.tiers[state.currentTierIndex + 1].breachesRequired # None
            THEN state.tiers[state.currentTierIndex + 1].breachesRequired
            ELSE IF state.tiers[state.currentTierIndex + 1].retraceClose # None
            THEN state.tiers[state.currentTierIndex + 1].retraceClose
            ELSE IF state.phase2.consecutiveBreachesRequired # None
            THEN state.phase2.consecutiveBreachesRequired
            ELSE 2

\* a tier index as a number, no tier being -1
TierNumber(idx) == IF idx = None THEN -1 ELSE idx

\* the highest tier index whose triggerPct the price reaches (upnlPct >=
\* triggerPct, upnlPct being the favourable move over entry times leverage,
\* in percent), -1 when it reaches none
HighestTriggered(st, price) ==
    LET gain == IF is_long(st) THEN price - st.entryPrice
                ELSE st.entryPrice - price
        met == {i \in 0..(Len(st.tiers) - 1) :
                   gain * st.leverage * 100
                     >= st.tiers[i + 1].triggerPct * st.entryPrice}
    IN  IF met = {} THEN -1 ELSE CHOOSE i \in met : \A j \in met : j <= i

\* C19: after a priced tick currentTierIndex is the maximum of its previous
\* value and the highest tier index whose triggerPct <= upnlPct; when it
\* advanced, tierFloorPrice = entry + (highWater - entry) x lockPct / 100
\* (mirrored for SHORT) with the new tier's lockPct and the high water as
\* updated on this tick; when it did not, currentTierIndex and
\* tierFloorPrice are unchanged.
C19_TierRatchet ==
    [][last' = "priced" =>
        /\ TierNumber(state'.currentTierIndex)
             = Max(TierNumber(state.currentTierIndex),
                   HighestTriggered(state, fetched'))
        /\ IF TierNumber(state'.currentTierIndex)
                > TierNumber(state.currentTierIndex)
           THEN state'.tierFloorPrice
                  = IF is_long(state)
                    THEN Round4(state.entryPrice * 100
                                  + (state'.highWaterPrice - state.entryPrice)
                                      * state.tiers[state'.currentTierIndex + 1].lockPct,
                                100)
                    ELSE Round4(state.entryPrice * 100
                                  - (state.entryPrice - state'.highWaterPrice)
                                      * state.tiers[state'.currentTierIndex + 1].lockPct,
                                100)
           ELSE /\ state'.currentTierIndex = state.currentTierIndex
                /\ state'.tierFloorPrice = state.tierFloorPrice]_vars

\* a tick that took a record without a tier straight to tier 1, at a price
\* that is its new high water
C19_Witness ==
    /\ Priced
    /\ result.tier_changed
    /\ result.previous_tier_idx = None
    /\ state.currentTierIndex = 1
    /\ state.highWaterPrice = state.lastPrice
    /\ state.tierFloorPrice # None

\* C20: a phase-1 record moves to phase 2 on exactly the tick on which its
\* tier index reaches phase2TriggerTier (index >= trigger), so a record
\* still in phase 1 has not reached it; on that tick currentBreachCount is
\* reset to 0 before the breach check, so the count persisted by the
\* transition tick is 1 if the tick breaches and 0 if not.
C20_PhaseTransition ==
    [][last' = "priced" =>
        /\ state.phase = 1 =>
             /\ TierNumber(state.currentTierIndex) < state.phase2TriggerTier
             /\ state'.phase = 2
                  <=> TierNumber(state'.currentTierIndex)
                        >= state.phase2TriggerTier
        /\ PhaseChanged =>
             state'.currentBreachCount = IF result'.breached THEN 1 ELSE 0]_vars

\* the transition tick of a record that came to it with a close pending
\* from phase 1: it is in phase 2 with no breach counted
C20_Witness ==
    /\ Priced
    /\ result.tier_changed
    /\ TierNumber(result.previous_tier_idx) < state.phase2TriggerTier
    /\ state.phase = 2
    /\ result.force_close
    /\ state.currentBreachCount = 0

\* C21: on every priced tick after a tier has been entered the effective
\* floor used for the breach test is at least as protective as the stored
\* tierFloorPrice, whatever phase2TriggerTier is, also while the record is
\* still in phase 1 with a tier.
C21_TierLocksFloor ==
    (Priced /\ state.currentTierIndex # None)
        => AtLeast(state, result.floor, state.tierFloorPrice)

\* C22: after every priced tick dsl-combined evaluates in phase 1 the
\* persisted peakROE is the maximum upnlPct of the record's phase-1 priced
\* ticks so far: the tick's upnlPct for a record that has no peakROE yet,
\* else the larger of the stored peak and the tick's upnlPct.
C22_PeakRoeIsRunningMax ==
    [][(last' = "priced" /\ script = "combined" /\ state'.phase = 1) =>
        state'.peakROE
          = IF state.peakROE = None THEN UpnlPctNum(state, fetched')
            ELSE Max(state.peakROE, UpnlPctNum(state, fetched'))]_vars

\* the loaded high water is a price a phase-1 tick of the record has seen, so
\* its upnlPct is the highest observed in phase 1
PeakObserved ==
    /\ state.phase = 1
    /\ \/ state.lastPrice = state.highWaterPrice
       \/ Better(state, state.highWaterPrice, state.entryPrice)

\* C23: on a priced tick of dsl-combined in phase 1, 45 minutes or more and
\* less than 90 after creation, if the highest upnlPct observed in phase 1
\* is below 3% and the tick's upnlPct is below that peak, the phase-1
\* timeout triggers and the close is decided, also for a record created
\* without a peak field.
C23_WeakPeakEarlyCut ==
    [][(/\ last' = "priced" /\ script = "combined"
        /\ state'.phase = 1
        /\ now' - state.createdAt >= 45
        /\ now' - state.createdAt < 90
        /\ PeakObserved
        /\ UpnlPctNum(state, state.highWaterPrice) < 3 * state.entryPrice
        /\ UpnlPctNum(state, fetched') < UpnlPctNum(state, state.highWaterPrice))
         => (result'.phase1_autocut /\ result'.should_close)]_vars

\* C24: on a priced tick of dsl-combined that leaves the record in phase 1
\* after the tier ratchet, 90 minutes or more after createdAt, phase1Autocut
\* is set and shouldClose is true whatever the profit; phase1Autocut is never
\* set on a tick that ends in phase 2, the transition tick included.
C24_HardPhase1Timeout ==
    [][(last' = "priced" /\ script = "combined") =>
        /\ (state'.phase = 1 /\ now' - state.createdAt >= 90)
             => (result'.phase1_autocut /\ result'.should_close)
        /\ state'.phase = 2 => ~result'.phase1_autocut]_vars

\* a phase-1 record in profit, 90 minutes old, at a new high water above its
\* floor: the timeout alone decides the close
C24_Witness ==
    /\ Priced /\ script = "combined"
    /\ state.phase = 1
    /\ now - state.createdAt >= 90
    /\ Better(state, state.lastPrice, state.entryPrice)
    /\ ~result.breached /\ ~result.stagnation_triggered /\ ~result.force_close
    /\ result.phase1_autocut /\ result.should_close

\* C25: stagnation triggers on a priced tick exactly when it is enabled,
\* upnlPct >= minROE, the high-water timestamp is at least staleHours old
\* and the price is strictly less than priceRangePct percent away from the
\* high-water price, whatever the phase and the breach count.
C25_StagnationIff ==
    Priced =>
        (result.stagnation_triggered <=>
            /\ state.stagnation.enabled
            /\ UpnlPctNum(state, state.lastPrice)
                 >= state.stagnation.minROE * state.entryPrice
            /\ now - state.hwTimestamp >= state.stagnation.staleHours
            /\ Abs(state.lastPrice - state.highWaterPrice) * 100
                 < state.stagnation.priceRangePct * state.highWaterPrice)

\* C26: on a tick that decides to close, the reason is the stagnation reason
\* whenever stagnation triggered, otherwise the phase-1 timeout reason
\* whenever the timeout triggered, otherwise the breach reason; a close that
\* succeeds on a position still open records that reason as closeReason.
C26_CloseReasonPriority ==
    (Priced /\ result.should_close) =>
        /\ IF result.stagnation_triggered
           THEN result.close_reason \in {"Stagnation TP", "DSL stagnation TP"}
           ELSE IF result.phase1_autocut
           THEN result.close_reason
                  \in {"Phase 1 timeout", "Weak peak early cut"}
           ELSE result.close_reason = "DSL breach"
        /\ (result.closed /\ result.close_result # "position_already_closed")
             => state.closeReason = result.close_reason

\* a close decided by stagnation and the phase-1 timeout on the same tick,
\* recorded with the stagnation reason
C26_Witness ==
    /\ Priced
    /\ result.stagnation_triggered /\ result.phase1_autocut
    /\ result.closed
    /\ state.closeReason = "Stagnation TP"

\* the scenario's record: LONG, leverage 5, the single tier {triggerPct 5,
\* lockPct 50}.  Its prices 100, 102, 103 and 106 are 1.00, 1.02, 1.03 and
\* 1.06 here: every price of the scenario is scaled by 1/100, none of them
\* is changed by round(x, 4), and size cancels in upnlPct.
Scenario(st) ==
    /\ st.asset = "B" /\ is_long(st) /\ st.leverage = 5
    /\ st.entryPrice = Micro
    /\ st.phase2TriggerTier = 0

\* C27: for the scenario's record as created (phase 1, no tier, high water
\* at entry, absoluteFloor unset) a tick at 106 yields upnlPct = 30, engages
\* tier 0 with tierFloorPrice = 103 and moves the record to phase 2; a tick
\* at 102 that follows it is a breach and makes the breach count 1, the
\* phase-2 effective floor being at least 103.
C27_TierLockScenario ==
    [][(last' = "priced" /\ Scenario(state)) =>
        /\ (/\ state.phase = 1 /\ state.currentTierIndex = None
            /\ state.highWaterPrice = state.entryPrice
            /\ state.phase1.absoluteFloor = None
            /\ fetched' = 1060000)
             => /\ (fetched' - state.entryPrice) * state.leverage * 100
                     = 30 * state.entryPrice
                /\ state'.currentTierIndex = 0
                /\ state'.tierFloorPrice = 1030000
                /\ state'.phase = 2
        /\ (/\ last = "priced" /\ state.lastPrice = 1060000
            /\ state.phase = 2 /\ state.currentTierIndex = 0
            /\ state.tierFloorPrice = 1030000
            /\ state.currentBreachCount = 0
            /\ fetched' = 1020000)
             => /\ result'.floor >= 1030000
                /\ result'.breached
                /\ state'.currentBreachCount = 1]_vars

\* the scenario after its second tick
C27_Witness ==
    /\ Priced /\ Scenario(state)
    /\ state.lastPrice = 1020000
    /\ state.highWaterPrice = 1060000
    /\ state.tierFloorPrice = 1030000
    /\ state.phase = 2
    /\ result.breached
    /\ state.currentBreachCount = 1

\* the fields of the persisted record the two scripts are compared on
Persisted(st) ==
    <<st.phase, st.currentTierIndex, st.tierFloorPrice, st.floorPrice,
      st.phase1.absoluteFloor, st.highWaterPrice, st.currentBreachCount,
      st.active, st.pendingClose>>

\* C28: for every record, price and answers of the close collaborator,
\* dsl-combined and dsl-v4 take the same close decision and persist the same
\* record (phase, tier, floors, breach count, active, pendingClose): what
\* the script of the run did on a priced tick is what either script does
\* with the same record, price and answers.
C28_CombinedEqualsV4 ==
    [][last' = "priced" =>
        \A scr \in {"combined", "v4"} :
            \E ev \in {Evaluate(scr, state, fetched', now')} :
                /\ ev.should_close = result'.should_close
                /\ \E cl \in IF ev.should_close /\ state.wallet # ""
                             THEN CloseOutcomes(scr, state) ELSE {NoClose} :
                    /\ cl.answers = answers'
                    /\ Persisted(Saved(scr, state, ev, cl, fetched', now'))
                         = Persisted(state')]_vars

\* C29: a tick changes the stored record in a single write at the end of the
\* record's evaluation: a tick interrupted before that write, also after the
\* close collaborator was invoked, leaves the stored record as it was before
\* the tick, and a tick that is not interrupted changes it in one step.
C29_CrashSafety ==
    [][/\ last' = "interrupted" => state' = state
       /\ state' # state => last' \in {"priced", "fetch_failed"}]_vars

\* a tick killed after it invoked the close collaborator: the stored record
\* is still active with no close pending
C29_Witness ==
    /\ last = "interrupted"
    /\ closeCalls >= 1
    /\ state.active /\ ~state.pendingClose
    /\ state.currentBreachCount < state.phase1.consecutiveBreachesRequired


\* a priced tick of a record in hard mode whose close decision rests on the
\* breach count alone
BreachOnlyClose ==
    /\ last' = "priced"
    /\ state.breachDecay # "soft"
    /\ result'.should_close
    /\ ~result'.force_close
    /\ ~result'.stagnation_triggered
    /\ ~result'.phase1_autocut

\* C30: in hard mode a close decided by the breach count alone happens only
\* on a tick that breaches its own effective floor with the count at
\* breaches_needed or more; the count grows by at most one per breaching
\* priced tick and is cleared by a priced tick that does not breach, so the
\* breaches_needed - 1 priced ticks before it breached as well: with
\* breaches_needed >= 2 the previous priced tick (whose result is still in
\* `result`, fetch failures in between leave it alone) was a breach, and a
\* breaching tick that follows a non-breaching one does not close.
C30_BreachHysteresis ==
    [][/\ (last' = "priced" /\ state.breachDecay # "soft") =>
            state'.currentBreachCount =
                IF result'.breached
                THEN (IF result'.breach_count <= state.currentBreachCount + 1
                      THEN result'.breach_count ELSE None)
                ELSE 0
       /\ BreachOnlyClose =>
            /\ result'.breached
            /\ result'.breach_count >= result'.breaches_needed
            /\ result'.breaches_needed >= 2 =>
                    /\ result.breached
                    /\ state.currentBreachCount >= result'.breaches_needed - 1
       /\ (/\ last' = "priced" /\ state.breachDecay # "soft"
           /\ ~result.breached /\ result'.breaches_needed >= 2
           /\ ~result'.force_close /\ ~result'.stagnation_triggered
           /\ ~result'.phase1_autocut) => ~result'.should_close]_vars

\* a hard-mode tick closed on the second of two consecutive breaches
C30_Witness ==
    /\ last = "priced"
    /\ state.breachDecay = "hard"
    /\ result.should_close /\ result.closed
    /\ ~result.force_close
    /\ ~result.stagnation_triggered
    /\ ~result.phase1_autocut
    /\ result.breached
    /\ result.breaches_needed = 2
    /\ result.breach_count = 2


\* C31: a priced tick sets hwTimestamp to the tick time when the high-water
\* price improved on it or the field was absent, and leaves it alone
\* otherwise; every other tick (a failed fetch, an inactive record) leaves it
\* alone.
C31_HwTimestamp ==
    [][/\ last' = "priced" =>
            state'.hwTimestamp =
                IF \/ Better(state, state'.highWaterPrice, state.highWaterPrice)
                   \/ state.hwTimestamp = None
                THEN now' ELSE state.hwTimestamp
       /\ last' # "priced" => state'.hwTimestamp = state.hwTimestamp]_vars

\* a priced tick, later than the last improvement, that did not improve the
\* high water and kept the older timestamp
C31_Witness ==
    /\ last = "priced"
    /\ state.hwTimestamp # None
    /\ state.hwTimestamp < now
    /\ state.lastPrice # state.highWaterPrice


\* C32: within one tick the close collaborator is invoked at most
\* CloseRetries times (2); no attempt follows one that succeeds or that
\* reports no position; and a tick whose attempts all failed is still
\* completed, the record written with pendingClose = true.
C32_BoundedClose ==
    Priced =>
        /\ closeCalls <= CloseRetries(script, state)
        /\ closeCalls <= 2
        /\ \A k \in 1..closeCalls :
               (AttemptOk(answers[k])
                    \/ (~answers[k].raised /\ answers[k].no_position))
                   => k = closeCalls
        /\ (closeCalls > 0 /\ ~result.closed) =>
               /\ closeCalls = CloseRetries(script, state)
               /\ state.pendingClose
               /\ state.lastCheck = now


\* C33: a fetch-failure tick adds one to consecutiveFetchFailures, sets
\* lastCheck, and changes active and closeReason only when the count reaches
\* the ceiling; every other field of the record (highWaterPrice, hwTimestamp,
\* phase, currentTierIndex, tierFloorPrice, floorPrice, absoluteFloor,
\* currentBreachCount, pendingClose, ...) is as it was.
C33_FetchFailureFrame ==
    [][last' = "fetch_failed" =>
        /\ [state' EXCEPT
              !.consecutiveFetchFailures = state.consecutiveFetchFailures,
              !.lastCheck = state.lastCheck,
              !.active = state.active,
              !.closeReason = state.closeReason] = state
        /\ state'.consecutiveFetchFailures = state.consecutiveFetchFailures + 1
        /\ state'.lastCheck = now'
        /\ (state'.active # state.active
              \/ state'.closeReason # state.closeReason)
             => state'.consecutiveFetchFailures >= MaxFetchFailures(state)]_vars

\* a failed fetch on a phase-2 record that keeps a counted breach
C33_Witness ==
    /\ last = "fetch_failed"
    /\ state.active
    /\ state.phase = 2
    /\ state.currentBreachCount > 0
    /\ state.highWaterPrice # state.entryPrice


\* C34: a record created in phase 1 with no tier is in phase 2 exactly when
\* it has a current tier and that tier's index is at least phase2TriggerTier;
\* so the phase-2 floor is never computed without a tier.
C34_Phase2IffTriggerTier ==
    /\ state.phase \in {1, 2}
    /\ state.phase = 2 <=>
          /\ state.currentTierIndex # None
          /\ state.currentTierIndex >= state.phase2TriggerTier
    /\ (Priced /\ state.phase = 2) => state.tierFloorPrice # None

\* a record that entered tier 0 and stays in phase 1, below its trigger tier
C34_Witness ==
    /\ Priced
    /\ state.phase = 1
    /\ state.currentTierIndex = 0
    /\ state.phase2TriggerTier = 1


\* C35: for a record created with its high water at the entry price and tiers
\* with positive, strictly ascending triggers, a tick on which the tier index
\* advances has its price equal to the updated high water and, the new tier's
\* lockPct being below 100 and the applicable retrace positive, is not a
\* breach: the breach count is not incremented on it.
C35_TierAdvanceIsNoBreach ==
    [][(last' = "priced" /\ result'.tier_changed) =>
        /\ state'.lastPrice = state'.highWaterPrice
        /\ TierAt(state', state'.currentTierIndex).lockPct < 100 =>
              /\ ~result'.breached
              /\ result'.breach_count <= state.currentBreachCount]_vars


\* C36: for a record created with its high water at the entry price and
\* every lockPct between 0 and 100, the high water is at least as favourable
\* as the entry price and, once a tier is entered, tierFloorPrice lies
\* between entryPrice and highWaterPrice inclusive; with lockPct
\* non-decreasing across tiers, entering a later tier never moves
\* tierFloorPrice in the loosening direction.
C36_TierFloorBetweenEntryAndHighWater ==
    [][/\ AtLeast(state', state'.highWaterPrice, state'.entryPrice)
       /\ state'.currentTierIndex # None =>
             /\ AtLeast(state', state'.tierFloorPrice, state'.entryPrice)
             /\ AtLeast(state', state'.highWaterPrice, state'.tierFloorPrice)
       /\ (/\ state.currentTierIndex # None
           /\ state'.currentTierIndex # state.currentTierIndex) =>
             AtLeast(state', state'.tierFloorPrice, state.tierFloorPrice)]_vars


\* the reasons a record can be deactivated with
CloseReasons ==
    {"Stagnation TP", "DSL stagnation TP", "Phase 1 timeout",
     "Weak peak early cut", "DSL breach", "position_already_closed"}
        \cup {Deactivated(fails) : fails \in 1..(MaxFails + 1)}

\* C37: with one invocation at a time, a record whose active flag is false
\* never has it true again, and every record with active = false carries a
\* closeReason: the reason of the close, "position_already_closed", or the
\* fetch-failure deactivation.
C37_InactiveStaysInactive ==
    [][/\ ~state.active => ~state'.active
       /\ ~state'.active => state'.closeReason \in CloseReasons]_vars

\* a record deactivated by fetch failures while its close was pending, then
\* evaluated again by a priced tick whose close attempts failed
C37_Witness ==
    /\ Priced
    /\ ~state.active
    /\ state.pendingClose
    /\ closeCalls > 0


\* whether record b is at least as far as record a: not active again after a
\* successful close, its high water at least as favourable, its tier index
\* not lower
Keeps(a, b) ==
    /\ (~a.active /\ a.closedAt # None) => ~b.active
    /\ AtLeast(a, b.highWaterPrice, a.highWaterPrice)
    /\ a.currentTierIndex # None =>
          /\ b.currentTierIndex # None
          /\ b.currentTierIndex >= a.currentTierIndex

\* a step on which an overlapping invocation writes the record
StaleWrite == loaded # <<>> /\ loaded' = <<>>

\* C38 as stated: also when two invocations overlap on a record (both read it
\* before either writes), a record one of them has persisted as closed is
\* never persisted as active again by the other, and no persisted high water
\* or tier index is overwritten by a less favourable or lower one.
C38_OverlapKeepsRecord ==
    [][StaleWrite => Keeps(state, state')]_vars

\* C38, amended: every write keeps the closed flag, the high water and the
\* tier index of the record its own invocation read; with one invocation at
\* a time that is the stored record, while the write of an overlapping
\* invocation is measured against what it read, not against what the other
\* invocation has stored in between.
C38_WriteKeepsWhatItRead ==
    [][IF StaleWrite THEN Keeps(loaded[1], state')
       ELSE Keeps(state, state')]_vars

\* one invocation has persisted the record as closed while an overlapping
\* one still holds the active record it read
C38_Witness ==
    /\ loaded # <<>>
    /\ loaded[1].active
    /\ Priced
    /\ ~state.active
    /\ state.closedAt # None

====
